---- MODULE Spec2Model ----
(***************************************************************************)
(* Model of src/app.py: the recursive day-by-day sales forecaster          *)
(* (update_lags, simulate_recursive_predictions), the scenario transforms  *)
(* (apply_discount_to_dataframe, apply_competition_scenario), the KPI      *)
(* aggregation (calculate_metrics) and the Streamlit script body that      *)
(* wires them together on every rerun.                                     *)
(*                                                                         *)
(* Numbers are exact rationals <<n, d>> (d > 0, lowest terms); a missing   *)
(* value (pandas NaN) is <<0, 0>>.  Floating-point rounding is not         *)
(* modelled.  A DataFrame is a sequence of rows, a row (pandas Series) is  *)
(* a function from column names to values.                                 *)
(***************************************************************************)
EXTENDS Integers, Sequences, FiniteSets, TLC

\* ------------------------------------------------------------------------
\* Bounds of the model
\* ------------------------------------------------------------------------
MaxDays == 9

FailSpan == 2

MaxRuns == 2

MaxPriceRows == 2

AppDays == 3

MaxSliderSteps == 1

\* ------------------------------------------------------------------------
\* Program constants
\* ------------------------------------------------------------------------
MaxLag == 7

HistoryCap == 7

MinDiscount == -50

MaxDiscount == 50

DiscountStep == 5

\* ------------------------------------------------------------------------
\* Exact arithmetic
\* ------------------------------------------------------------------------
\* Bind1 and Bind2 evaluate an argument once and hand on its value (TLC
\* re-evaluates an operator's argument at each use while it computes ENABLED).
Bind1(F(_), a) == CHOOSE r \in {F(x) : x \in {a}} : TRUE

Bind2(F(_, _), a, b) == CHOOSE r \in {F(x, y) : x \in {a}, y \in {b}} : TRUE

Abs(i) == IF i < 0 THEN -i ELSE i

RECURSIVE GCD(_, _)
GCD(a, b) == IF b = 0 THEN a ELSE GCD(b, a % b)

Norm(n, d) ==
    LET s == IF d < 0 THEN -1 ELSE 1
        g == GCD(Abs(n), Abs(d))
    IN  <<(s * n) \div g, (s * d) \div g>>

R(i) == <<i, 1>>

NaN == <<0, 0>>

notna(v) == v[2] # 0

RAdd(a, b) ==
    Bind2(LAMBDA x, y : IF notna(x) /\ notna(y)
                        THEN Norm(x[1] * y[2] + y[1] * x[2], x[2] * y[2]) ELSE NaN, a, b)

RSub(a, b) ==
    Bind2(LAMBDA x, y : IF notna(x) /\ notna(y)
                        THEN Norm(x[1] * y[2] - y[1] * x[2], x[2] * y[2]) ELSE NaN, a, b)

RMul(a, b) ==
    Bind2(LAMBDA x, y : IF notna(x) /\ notna(y)
                        THEN Norm(x[1] * y[1], x[2] * y[2]) ELSE NaN, a, b)

\* the divisor is never zero on the inputs of this model (prices are positive)
RDiv(a, b) ==
    Bind2(LAMBDA x, y : IF notna(x) /\ notna(y) /\ y[1] # 0
                        THEN Norm(x[1] * y[2], x[2] * y[1]) ELSE NaN, a, b)

RLeq(a, b) == Bind2(LAMBDA x, y : x[1] * y[2] <= y[1] * x[2], a, b)

RECURSIVE RSum(_)
RSum(s) == IF s = <<>> THEN R(0) ELSE RAdd(s[1], RSum(Tail(s)))

\* np.mean of a non-empty list / Series.mean() of the non-missing values
Mean(s) == RDiv(RSum(s), R(Len(s)))

\* ------------------------------------------------------------------------
\* Column names
\* ------------------------------------------------------------------------
LagCol(d) ==
    <<"unidades_vendidas_lag1", "unidades_vendidas_lag2", "unidades_vendidas_lag3",
      "unidades_vendidas_lag4", "unidades_vendidas_lag5", "unidades_vendidas_lag6",
      "unidades_vendidas_lag7">>[d]

MA7 == "unidades_vendidas_ma7"

Target == "unidades_vendidas"

\* row[col] = v on a pandas Series: an unknown label is appended
SetItem(row, col, v) ==
    Bind2(LAMBDA r, w : [c \in (DOMAIN r) \cup {col} |-> IF c = col THEN w ELSE r[c]], row, v)

\* df.loc[i] = row: the Series is aligned on the frame's columns
SetRow(df, i, row) ==
    Bind2(LAMBDA f, r : [f EXCEPT ![i] = [c \in DOMAIN f[i] |->
                                            IF c \in DOMAIN r THEN r[c] ELSE NaN]], df, row)

Columns(df) == IF df = <<>> THEN {} ELSE DOMAIN df[1]

\* ------------------------------------------------------------------------
\* The trained model (external collaborator): a linear regressor over its
\* declared features that raises on the days of month in raisesOn
\* ------------------------------------------------------------------------
\* get_feature_columns
get_feature_columns(mdl) == mdl.feature_names_in_

\* position of a column in the feature list, 0 when the model does not use it
FeaturePos(cols, name) ==
    IF \E i \in 1..Len(cols) : cols[i] = name
    THEN CHOOSE i \in 1..Len(cols) : cols[i] = name
    ELSE 0

RECURSIVE Dot(_, _, _)
Dot(coef, X, i) ==
    IF i = 0 THEN R(0) ELSE RAdd(RMul(R(coef[i]), X[i]), Dot(coef, X, i - 1))

\* model.predict(X)[0]
predict(mdl, X) == RAdd(R(mdl.intercept), Dot(mdl.coef, X, Len(X)))

\* model.predict(X) raises
Raises(mdl, X) ==
    LET p == FeaturePos(mdl.feature_names_in_, "dia_mes")
    IN  p # 0 /\ X[p] \in {R(k) : k \in mdl.raisesOn}

\* ------------------------------------------------------------------------
\* Helper functions of the forecaster
\* ------------------------------------------------------------------------
prepare_prediction_data(df_row, feature_cols) ==
    [i \in 1..Len(feature_cols) |->
        IF feature_cols[i] \in DOMAIN df_row THEN df_row[feature_cols[i]] ELSE R(0)]

\* for lag in range(7, 1, -1): shift inside the row that was passed in
RECURSIVE ShiftLags(_, _)
ShiftLags(row, lag) ==
    IF lag < 2 THEN row
    ELSE Bind1(LAMBDA r : ShiftLags(IF LagCol(lag - 1) \in DOMAIN r
                                    THEN SetItem(r, LagCol(lag), r[LagCol(lag - 1)])
                                    ELSE r,
                                    lag - 1), row)

\* mutant: the history is never trimmed
PushHistory_unbounded(hist, previous_pred) == Append(hist, previous_pred)

\* lag_history.append(previous_pred); pop(0) beyond 7 entries
PushHistory(hist, previous_pred) ==
    LET h == Append(hist, previous_pred)
    IN  IF Len(h) > HistoryCap THEN Tail(h) ELSE h

\* mutant: the lag-1 assignment is left out
update_lags_without_lag1(row, previous_pred, lag_history) ==
    Bind1(LAMBDA h : <<SetItem(ShiftLags(row, MaxLag), MA7, Mean(h)), h>>,
          PushHistory(lag_history, previous_pred))

update_lags(row, previous_pred, lag_history) ==
    LET shifted == ShiftLags(row, MaxLag)
        withLag1 == SetItem(shifted, LagCol(1), previous_pred)
    IN  Bind1(LAMBDA h : <<SetItem(withLag1, MA7, Mean(h)), h>>,
              PushHistory(lag_history, previous_pred))

\* df.sort_values('fecha').reset_index(drop=True), by insertion
RECURSIVE SortByFecha(_)
Insert(row, sorted) ==
    Bind2(LAMBDA r, s :
            LET n == Cardinality({i \in 1..Len(s) : s[i]["fecha"] <= r["fecha"]})
            IN  SubSeq(s, 1, n) \o <<r>> \o SubSeq(s, n + 1, Len(s)), row, sorted)

\* mutant: the rows are taken in the order given
SortByFecha_unsorted(df) == df

SortByFecha(df) ==
    IF df = <<>> THEN <<>>
    ELSE Insert(df[Len(df)], SortByFecha(SubSeq(df, 1, Len(df) - 1)))

\* max(0, pred)
Max0(pred) == Bind1(LAMBDA p : IF RLeq(p, R(0)) THEN R(0) ELSE p, pred)

NonMissingTargets(df) ==
    LET RECURSIVE Pick(_)
        Pick(i) == IF i > Len(df) THEN <<>>
                   ELSE IF notna(df[i][Target]) THEN <<df[i][Target]>> \o Pick(i + 1)
                   ELSE Pick(i + 1)
    IN  Pick(1)

\* mutant: the mean is used whether or not the day has a target
Fallback_mean_only(df, idx) ==
    IF Target \in Columns(df) /\ (\E i \in 1..Len(df) : notna(df[i][Target]))
    THEN Mean(NonMissingTargets(df))
    ELSE R(0)

\* the except branch of the loop body
Fallback(df, idx) ==
    IF Target \in Columns(df) /\ (\E i \in 1..Len(df) : notna(df[i][Target]))
    THEN IF notna(df[idx + 1][Target]) THEN df[idx + 1][Target]
         ELSE Mean(NonMissingTargets(df))
    ELSE R(0)

\* X = prepare_prediction_data(df_sim.iloc[[idx]].copy(), feature_cols)
FeatureVector(df, idx, mdl) ==
    prepare_prediction_data(df[idx + 1], get_feature_columns(mdl))

\* the try/except of the loop body: the value appended to predictions
PredictDay(df, idx, mdl) ==
    Bind1(LAMBDA X : IF Raises(mdl, X) THEN Fallback(df, idx) ELSE Max0(predict(mdl, X)),
          FeatureVector(df, idx, mdl))

\* one iteration of the for loop
LoopBody(st, mdl) ==
    LET more == st.idx < Len(st.df_sim) - 1
        \* pred: the value of the try/except; upd: what update_lags returns
        Rest(pred, upd) ==
            [df_sim |-> IF more THEN SetRow(st.df_sim, st.idx + 2, upd[1]) ELSE st.df_sim,
             predictions |-> Append(st.predictions, pred),
             lag_history |-> IF more THEN upd[2] ELSE st.lag_history,
             idx |-> st.idx + 1,
             X_log |-> Append(st.X_log, FeatureVector(st.df_sim, st.idx, mdl)),
             upd_log |-> IF more THEN Append(st.upd_log, st.idx + 1) ELSE st.upd_log]
    IN  Bind1(LAMBDA pred :
                Bind1(LAMBDA upd : Rest(pred, upd),
                      IF more THEN update_lags(st.df_sim[st.idx + 2], pred, st.lag_history)
                      ELSE <<>>),
              PredictDay(st.df_sim, st.idx, mdl))

RECURSIVE RunLoop(_, _)
RunLoop(st, mdl) ==
    IF st.idx >= Len(st.df_sim) THEN st ELSE RunLoop(LoopBody(st, mdl), mdl)

\* df_sim['predicciones'] = predictions
AttachPredictions(df, preds) ==
    [i \in 1..Len(df) |-> SetItem(df[i], "predicciones", preds[i])]

\* ------------------------------------------------------------------------
\* State
\* ------------------------------------------------------------------------
VARIABLES
    df_product,   \* the row set the caller passes to simulate_recursive_predictions
    model,        \* the trained model
    state,        \* NotStarted, Running, Completed
    df_sim, predictions, lag_history, idx,   \* locals of simulate_recursive_predictions
    X_log,        \* feature vectors handed to model.predict, one per day
    upd_log,      \* 0-based row indices update_lags was called for
    run,          \* number of calls of simulate_recursive_predictions so far
    first,        \* result of the first call, kept by the caller
    \* the transform pipeline on its own
    p_stage,      \* input, discounted, adjusted
    p_rows,       \* the row set as it moves through the two transforms
    p_input,      \* the row set before apply_discount_to_dataframe
    p_mid,        \* the row set between the two transforms
    p_discount, p_adjustment,
    \* the Streamlit script
    session_state,   \* st.session_state, kept across reruns
    widgets,         \* widget values of the latest rerun
    namespace,       \* names bound in the script's namespace on the latest rerun
    outcome,         \* none, welcome, rendered, NameError
    comparison       \* one entry per scenario of the comparison loop

fvars == <<state, df_sim, predictions, lag_history, idx, X_log, upd_log, run, first>>

pvars == <<p_stage, p_rows, p_input, p_mid, p_discount, p_adjustment>>

avars == <<session_state, widgets, namespace, outcome, comparison>>

vars == <<df_product, model, fvars, pvars, avars>>

ForecastIdle ==
    /\ state = "NotStarted"
    /\ df_sim = <<>>
    /\ predictions = <<>>
    /\ lag_history = <<>>
    /\ idx = 0
    /\ X_log = <<>>
    /\ upd_log = <<>>
    /\ run = 0
    /\ first = <<>>

PriceIdle ==
    /\ p_stage = "unused"
    /\ p_rows = <<>>
    /\ p_input = <<>>
    /\ p_mid = <<>>
    /\ p_discount = 0
    /\ p_adjustment = 0

AppIdle ==
    /\ session_state = <<>>
    /\ widgets = <<>>
    /\ namespace = {}
    /\ outcome = "none"
    /\ comparison = <<>>

Locals == [df_sim |-> df_sim, predictions |-> predictions, lag_history |-> lag_history,
           idx |-> idx, X_log |-> X_log, upd_log |-> upd_log]

SetLocals(st) ==
    /\ df_sim' = st.df_sim
    /\ predictions' = st.predictions
    /\ lag_history' = st.lag_history
    /\ idx' = st.idx
    /\ X_log' = st.X_log
    /\ upd_log' = st.upd_log

\* mutant: the history of the previous call is kept
NewRun_stale_history(df) ==
    [df_sim |-> SortByFecha(df), predictions |-> <<>>, lag_history |-> lag_history, idx |-> 0,
     X_log |-> <<>>, upd_log |-> <<>>]

\* the first three statements of simulate_recursive_predictions; X_log and upd_log
\* record the vectors handed to the predictor and the rows update_lags was run for
NewRun(df) ==
    [df_sim |-> SortByFecha(df), predictions |-> <<>>, lag_history |-> <<>>, idx |-> 0,
     X_log |-> <<>>, upd_log |-> <<>>]

simulate_recursive_predictions(df, mdl) ==
    LET st == RunLoop(NewRun(df), mdl) IN AttachPredictions(st.df_sim, st.predictions)

\* ------------------------------------------------------------------------
\* Scenario transforms and KPI aggregation
\* ------------------------------------------------------------------------
\* 1 - discount_pct / 100 and 1 + scenario_adjustment / 100
Pct(p) == RDiv(R(p), R(100))

DiscountRow(row, discount_pct) ==
    LET r1 == SetItem(row, "precio_venta",
                      RMul(row["precio_base"], RSub(R(1), Pct(discount_pct))))
        r2 == IF "descuento_porcentaje" \in DOMAIN row
              THEN SetItem(r1, "descuento_porcentaje", R(discount_pct)) ELSE r1
    IN  IF "precio_competencia" \in DOMAIN row
        THEN SetItem(r2, "ratio_precio", RDiv(r2["precio_venta"], r2["precio_competencia"]))
        ELSE r2

apply_discount_to_dataframe(df, discount_pct) ==
    IF "precio_base" \in Columns(df)
    THEN [i \in 1..Len(df) |-> DiscountRow(df[i], discount_pct)]
    ELSE df

comp_cols == {"Amazon", "Decathlon", "Deporvillage"}

\* mutant: the ratio is not recomputed after the competitor price moves
CompetitionRow_stale_ratio(row, adjustment_factor) ==
    [c \in DOMAIN row |->
        IF c \in comp_cols \cup {"precio_competencia"}
        THEN RMul(row[c], adjustment_factor) ELSE row[c]]

CompetitionRow(row, adjustment_factor) ==
    LET r1 == IF "precio_competencia" \in DOMAIN row
              THEN SetItem(row, "precio_competencia",
                           RMul(row["precio_competencia"], adjustment_factor))
              ELSE row
        r2 == IF "precio_competencia" \in DOMAIN row /\ "precio_venta" \in DOMAIN row
              THEN SetItem(r1, "ratio_precio", RDiv(r1["precio_venta"], r1["precio_competencia"]))
              ELSE r1
    IN  [c \in DOMAIN r2 |-> IF c \in comp_cols THEN RMul(r2[c], adjustment_factor) ELSE r2[c]]

apply_competition_scenario(df, scenario_adjustment) ==
    IF scenario_adjustment = 0 THEN df
    ELSE [i \in 1..Len(df) |->
            CompetitionRow(df[i], RAdd(R(1), Pct(scenario_adjustment)))]

Column(df, c) == [i \in 1..Len(df) |-> df[i][c]]

calculate_metrics(df) ==
    [total_units |-> RSum(Column(df, "predicciones")),
     total_revenue |-> RSum([i \in 1..Len(df) |->
                                RMul(df[i]["predicciones"], df[i]["precio_venta"])]),
     avg_price |-> Mean(Column(df, "precio_venta")),
     avg_discount |-> IF "descuento_porcentaje" \in Columns(df)
                      THEN Mean(Column(df, "descuento_porcentaje")) ELSE R(0)]

\* ------------------------------------------------------------------------
\* Inputs: day skeletons and trained models
\* ------------------------------------------------------------------------
LagKinds == {"flat", "hist"}

ColKinds == {"full", "nolag3"}

TargetKinds == {"none", "all", "some", "nan"}

Orders == {"asc", "desc"}

SkeletonRow(k, lagKind, colKind, tgtKind) ==
    LET lags == IF colKind = "nolag3" THEN (1..MaxLag) \ {3} ELSE 1..MaxLag
        cols == {"fecha", "dia_mes", MA7} \cup {LagCol(d) : d \in lags}
                    \cup (IF tgtKind = "none" THEN {} ELSE {Target})
    IN  [c \in cols |->
            CASE c = "fecha" -> k
              [] c = "dia_mes" -> R(k)
              [] c = MA7 -> R(4)
              [] c = Target -> IF tgtKind = "nan" \/ (tgtKind = "some" /\ k % 2 = 1)
                               THEN NaN ELSE R(k - 3)
              [] OTHER -> LET d == CHOOSE d \in lags : LagCol(d) = c
                          IN  IF lagKind = "flat" THEN R(5) ELSE R((3 * k + d) % 7)]

Skeleton(n, lagKind, colKind, tgtKind, order) ==
    [i \in 1..n |-> SkeletonRow(IF order = "asc" THEN i ELSE n + 1 - i,
                                lagKind, colKind, tgtKind)]

Skeletons ==
    {Skeleton(n, l, c, t, o) : n \in 1..MaxDays, l \in LagKinds, c \in ColKinds,
                               t \in TargetKinds, o \in Orders}

FailPatterns == (SUBSET (1..FailSpan)) \cup {1..MaxDays}

Regressors ==
    { [feature_names_in_ |-> <<"dia_mes", LagCol(1)>>,
       coef |-> <<0, 1>>, intercept |-> 0],
      [feature_names_in_ |-> <<"dia_mes", LagCol(1), LagCol(2), MA7>>,
       coef |-> <<0, 1, -1, 1>>, intercept |-> 0],
      [feature_names_in_ |-> <<"dia_mes", LagCol(7), "categoria_h_Running">>,
       coef |-> <<1, 1, 5>>, intercept |-> -6] }

Models ==
    {[feature_names_in_ |-> m.feature_names_in_, coef |-> m.coef,
      intercept |-> m.intercept, raisesOn |-> f] : m \in Regressors, f \in FailPatterns}

\* ------------------------------------------------------------------------
\* Spec: calls of simulate_recursive_predictions on one row set
\* ------------------------------------------------------------------------
Init ==
    /\ df_product \in Skeletons
    /\ model \in Models
    /\ ForecastIdle
    /\ PriceIdle
    /\ AppIdle

\* the caller invokes simulate_recursive_predictions(df_product, model, ...)
Start ==
    /\ state \in {"NotStarted", "Completed"}
    /\ run < MaxRuns
    /\ \E st \in {NewRun(df_product)} : SetLocals(st)
    /\ state' = "Running"
    /\ run' = run + 1
    /\ first' = IF state = "Completed" /\ run = 1 THEN <<df_sim, predictions, X_log>> ELSE first
    /\ UNCHANGED <<df_product, model, pvars, avars>>

\* one day of the loop
Day ==
    /\ state = "Running"
    /\ idx < Len(df_sim)
    /\ \E st \in {LoopBody(Locals, model)} : SetLocals(st)
    /\ UNCHANGED <<df_product, model, state, run, first, pvars, avars>>

\* loop exit: attach the predictions and return
Finish ==
    /\ state = "Running"
    /\ idx >= Len(df_sim)
    /\ df_sim' = AttachPredictions(df_sim, predictions)
    /\ state' = "Completed"
    /\ UNCHANGED <<df_product, model, predictions, lag_history, idx, X_log, upd_log, run, first,
                   pvars, avars>>

Next == Start \/ Day \/ Finish

Spec == Init /\ [][Next]_vars

\* the same calls on fewer row sets, with the loop and its caller taking their steps
LiveInit ==
    /\ df_product \in {Skeleton(n, "hist", "full", t, o) :
                            n \in 1..MaxDays, t \in {"none", "some"}, o \in Orders}
    /\ model \in Models
    /\ ForecastIdle
    /\ PriceIdle
    /\ AppIdle

LiveSpec == LiveInit /\ [][Next]_vars /\ WF_vars(Next)

\* ------------------------------------------------------------------------
\* PriceSpec: apply_discount_to_dataframe followed by apply_competition_scenario
\* ------------------------------------------------------------------------
Discounts == {DiscountStep * i : i \in (MinDiscount \div DiscountStep)..(MaxDiscount \div DiscountStep)}

ScenarioAdjustment ==
    [o \in {"Actual (0%)", "Competitors -5%", "Competitors +5%"} |->
        CASE o = "Actual (0%)" -> 0
          [] o = "Competitors -5%" -> -5
          [] o = "Competitors +5%" -> 5]

Adjustments == {ScenarioAdjustment[o] : o \in DOMAIN ScenarioAdjustment}

PriceColKinds == {"all", "nodiscountcol", "noratio", "nobase", "nocomp"}

\* a day row with price columns: base price b, competitor price c
PriceRow(k, b, c, kind) ==
    LET cols == ({"fecha", "dia_mes", "precio_base", "precio_venta", "precio_competencia",
                  "descuento_porcentaje", "ratio_precio", "Amazon"})
                \ (CASE kind = "nodiscountcol" -> {"descuento_porcentaje"}
                      [] kind = "noratio" -> {"ratio_precio"}
                      [] kind = "nobase" -> {"precio_base"}
                      [] kind = "nocomp" -> {"precio_competencia"}
                      [] OTHER -> {})
    IN  [col \in cols |->
            CASE col = "fecha" -> k
              [] col = "dia_mes" -> R(k)
              [] col = "precio_base" -> R(b + k)
              [] col = "precio_venta" -> R(b + k - 5)
              [] col = "precio_competencia" -> R(c)
              [] col = "descuento_porcentaje" -> R(5)
              [] col = "ratio_precio" -> RDiv(R(b + k - 5), R(c))
              [] col = "Amazon" -> R(c + 2)]

PriceRowSets ==
    {[k \in 1..n |-> PriceRow(k, b, c, kind)] :
        n \in 1..MaxPriceRows, b \in {99, 120}, c \in {90, 100}, kind \in PriceColKinds}

PriceInit ==
    /\ df_product = <<>>
    /\ model = <<>>
    /\ ForecastIdle
    /\ AppIdle
    /\ p_stage = "input"
    /\ p_rows \in PriceRowSets
    /\ p_input = p_rows
    /\ p_mid = <<>>
    /\ p_discount \in Discounts
    /\ p_adjustment \in Adjustments

Discount ==
    /\ p_stage = "input"
    /\ p_rows' = apply_discount_to_dataframe(p_rows, p_discount)
    /\ p_mid' = p_rows'
    /\ p_stage' = "discounted"
    /\ UNCHANGED <<df_product, model, fvars, avars, p_input, p_discount, p_adjustment>>

Compete ==
    /\ p_stage = "discounted"
    /\ p_rows' = apply_competition_scenario(p_rows, p_adjustment)
    /\ p_stage' = "adjusted"
    /\ UNCHANGED <<df_product, model, fvars, avars, p_input, p_mid, p_discount, p_adjustment>>

PriceNext == Discount \/ Compete

PriceSpec == PriceInit /\ [][PriceNext]_vars

\* ------------------------------------------------------------------------
\* AppSpec: reruns of the Streamlit script
\* ------------------------------------------------------------------------
Products == {"Gadget", "Widget"}

\* the day-level dataset returned by load_inference_data
ProductRows(nombre) ==
    [k \in 1..AppDays |->
        [c \in {"nombre"} |-> nombre]
            @@ SkeletonRow(k, "hist", "full", "all")
            @@ PriceRow(0, IF nombre = "Widget" THEN 100 ELSE 60,
                        IF nombre = "Widget" THEN 100 ELSE 50, "all")]

df_inference == ProductRows("Gadget") \o ProductRows("Widget")

\* df_inference[df_inference['nombre'] == selected_product]
FilterProduct(df, nombre) == SelectSeq(df, LAMBDA row : row["nombre"] = nombre)

\* slider positions offered to the reruns of the model
AppDiscounts == {DiscountStep * i : i \in (-MaxSliderSteps)..MaxSliderSteps}

AppModels ==
    {[feature_names_in_ |-> <<"dia_mes", "ratio_precio", LagCol(1)>>,
      coef |-> <<0, -10, 1>>, intercept |-> 20, raisesOn |-> f] : f \in {{}, {2}}}

scenarios == <<"Actual (0%)", "Competitors -5%", "Competitors +5%">>

\* the scenario comparison loop; the entries keep the series and the metrics
\* the displayed strings are formatted from
ScenarioComparison(df, discount_slider, mdl) ==
    [n \in 1..Len(scenarios) |->
        LET adjustment == ScenarioAdjustment[scenarios[n]]
            df_temp == apply_competition_scenario(
                           apply_discount_to_dataframe(df, discount_slider), adjustment)
        IN  [Scenario |-> scenarios[n],
             adjustment |-> adjustment,
             df_temp |-> df_temp,
             metrics_temp |-> calculate_metrics(simulate_recursive_predictions(df_temp, mdl))]]

\* if simulate_button: ... the df_product the block binds
MainBlock(selected_product, discount_slider, scenario_option) ==
    apply_competition_scenario(
        apply_discount_to_dataframe(FilterProduct(df_inference, selected_product),
                                    discount_slider),
        ScenarioAdjustment[scenario_option])

\* one execution of the script, top to bottom, with the given widget values
Script(simulate_button, selected_product, discount_slider, scenario_option) ==
    LET main == MainBlock(selected_product, discount_slider, scenario_option)
        ss == IF simulate_button
              THEN [df_sim |-> simulate_recursive_predictions(main, model),
                    selected_product |-> selected_product,
                    discount |-> discount_slider,
                    scenario |-> scenario_option]
              ELSE session_state
        bound == IF simulate_button THEN {"df_product"} ELSE {}
    IN  /\ widgets' = [simulate_button |-> simulate_button,
                       selected_product |-> selected_product,
                       discount_slider |-> discount_slider,
                       scenario_option |-> scenario_option]
        /\ session_state' = ss
        /\ namespace' = bound
        /\ df_product' = IF simulate_button THEN main ELSE <<>>
        /\ IF "df_sim" \notin DOMAIN ss
           THEN outcome' = "welcome" /\ comparison' = <<>>
           ELSE IF "df_product" \notin bound
           THEN outcome' = "NameError" /\ comparison' = <<>>
           ELSE /\ outcome' = "rendered"
                /\ comparison' = ScenarioComparison(main, discount_slider, model)
        /\ UNCHANGED <<model, fvars, pvars>>

AppInit ==
    /\ df_product = <<>>
    /\ model \in AppModels
    /\ ForecastIdle
    /\ PriceIdle
    /\ AppIdle

\* the user presses Simulate Sales
SimulateClick ==
    \E p \in Products, d \in AppDiscounts, o \in DOMAIN ScenarioAdjustment :
        Script(TRUE, p, d, o)

\* the user touches any other widget
OtherInteraction ==
    \E p \in Products, d \in AppDiscounts, o \in DOMAIN ScenarioAdjustment :
        Script(FALSE, p, d, o)

AppNext == SimulateClick \/ OtherInteraction

AppSpec == AppInit /\ [][AppNext]_vars

\* ------------------------------------------------------------------------
\* Claims about the recursive forecaster (Spec, LiveSpec)
\* ------------------------------------------------------------------------
Days == Len(df_sim)

\* 1-based rows of df_sim that update_lags has rewritten so far in this run
UpdatedRows == {r \in 2..Days : r <= idx + 1}

Lag1Pos == FeaturePos(model.feature_names_in_, LagCol(1))

\* the caller's rows in date order, found by rank (no use of the program's sort)
InputDay(i) ==
    df_product[CHOOSE j \in 1..Len(df_product) :
        Cardinality({m \in 1..Len(df_product) :
                        df_product[m]["fecha"] < df_product[j]["fecha"]}) = i - 1]

\* C1: when the skeleton has the lag-1 column, the lag-1 entry of the feature
\* vector handed to the predictor on day k >= 1 is the prediction recorded for
\* day k-1.
C1_Lag1IsPreviousPrediction ==
    (Lag1Pos # 0 /\ LagCol(1) \in Columns(df_product)) =>
        \A k \in 2..Len(X_log) : X_log[k][Lag1Pos] = predictions[k - 1]

\* a third day has been predicted from a lag-1 that is neither the skeleton's
\* own lag-1 of that day nor that day's prediction
C1_Witness ==
    /\ Lag1Pos # 0
    /\ LagCol(1) \in Columns(df_product)
    /\ Len(X_log) >= 3
    /\ X_log[3][Lag1Pos] # InputDay(3)[LagCol(1)]
    /\ X_log[3][Lag1Pos] # predictions[3]
    /\ predictions[1] # predictions[2]

\* C2: on every updated day k >= 1 and for d in 2..7, lag_d of day k's row
\* equals lag_{d-1} of day k-1's row (the row the predictor saw the day before).
C2_LagCascade ==
    \A r \in UpdatedRows : \A d \in 2..MaxLag :
        (LagCol(d) \in DOMAIN df_sim[r] /\ LagCol(d - 1) \in DOMAIN df_sim[r - 1]) =>
            df_sim[r][LagCol(d)] = df_sim[r - 1][LagCol(d - 1)]

\* C3: the lag history never holds more than 7 values, and the rolling average
\* of every updated day k is the mean of the predictions of days
\* max(0, k-7) .. k-1 of the current run.
C3_RollingAverage ==
    /\ Len(lag_history) <= 7
    /\ \A r \in UpdatedRows :
          df_sim[r][MA7] = Mean(SubSeq(predictions, IF r - 7 < 1 THEN 1 ELSE r - 7, r - 1))

\* the ninth day's average leaves out the first prediction, and that matters
C3_Witness ==
    /\ run = 2
    /\ idx >= 9
    /\ df_sim[9][MA7] # Mean(SubSeq(predictions, 1, 8))
    /\ df_sim[9][MA7] # Mean(SubSeq(predictions, 2, 9))
    /\ df_sim[9][MA7] = Mean(SubSeq(predictions, 2, 8))

\* C4: every recorded prediction is >= 0, predictor or fallback.
C4_NonNegative ==
    \A i \in 1..Len(predictions) : RLeq(R(0), predictions[i])

Ascending(df) == \A i, j \in 1..Len(df) : i < j => df[i]["fecha"] < df[j]["fecha"]

RunShape ==
    /\ Days = Len(df_product)
    /\ Ascending(df_sim)
    /\ Len(predictions) = Days
    /\ Len(X_log) = Days
    /\ \A i \in 1..Days : X_log[i][1] = df_sim[i]["dia_mes"]
    /\ upd_log = [i \in 1..(Days - 1) |-> i]

\* C6: whatever days the predictor fails on, a started run reaches Completed,
\* with the days taken in ascending date order, one prediction per day and
\* update_lags called once for each of the rows 1 .. N-1 in turn.
C6_RunCompletes ==
    /\ [](state = "Completed" => RunShape)
    /\ [][state = "Running" /\ idx' # idx => idx' = idx + 1]_vars
    /\ ((state = "Running") ~> (state = "Completed"))

C6_Witness ==
    /\ state = "Completed"
    /\ Days >= 3
    /\ df_product # df_sim
    /\ ~Ascending(df_product)
    /\ \E i \in 2..Days : Raises(model, X_log[i])
    /\ \E i \in 2..Days : ~Raises(model, X_log[i])

\* C8: a second call on the same rows with the same model returns the same
\* predictions, rows and feature vectors as the first, and the caller's rows
\* are never written.
C8_Rerun ==
    /\ []((run >= 2 /\ state = "Completed") => first = <<df_sim, predictions, X_log>>)
    /\ [][df_product' = df_product]_vars

C8_Witness ==
    /\ run = 2
    /\ state = "Completed"
    /\ Days >= 3
    /\ lag_history # <<>>
    /\ \E r \in 2..Days : df_sim[r][MA7] # InputDay(r)[MA7]
    /\ predictions[2] # predictions[3]

\* ------------------------------------------------------------------------
\* Claims about the transforms (PriceSpec)
\* ------------------------------------------------------------------------
\* C9: on rows with base-price and competitor-price columns, discount d then
\* adjustment a leave selling price = base * (1 - d/100), competitor price =
\* original competitor price * (1 + a/100) and ratio = selling / competitor on
\* every row; with a = 0 the competition step returns its input.
C9_Prices ==
    (p_stage = "adjusted" /\ {"precio_base", "precio_competencia"} \subseteq Columns(p_input)) =>
        /\ Len(p_rows) = Len(p_input)
        /\ \A i \in 1..Len(p_rows) :
              LET venta == RDiv(RMul(p_input[i]["precio_base"], R(100 - p_discount)), R(100))
                  comp == RDiv(RMul(p_input[i]["precio_competencia"], R(100 + p_adjustment)),
                               R(100))
              IN  /\ p_rows[i]["precio_venta"] = venta
                  /\ p_rows[i]["precio_competencia"] = comp
                  /\ p_rows[i]["ratio_precio"] = RDiv(venta, comp)
        /\ p_adjustment = 0 => p_rows = p_mid

\* base 100 with a 20 % discount sells at 80, against competitors moved by 5 %
C9_Witness ==
    /\ p_stage = "adjusted"
    /\ p_discount = 20
    /\ p_adjustment = 5
    /\ {"precio_base", "precio_competencia", "ratio_precio"} \subseteq Columns(p_input)
    /\ \E i \in 1..Len(p_rows) :
          /\ p_input[i]["precio_base"] = R(100)
          /\ p_rows[i]["precio_venta"] = R(80)
          /\ p_rows[i]["ratio_precio"] # p_mid[i]["ratio_precio"]
          /\ p_mid[i]["ratio_precio"] # p_input[i]["ratio_precio"]

\* ------------------------------------------------------------------------
\* Claims about the script (AppSpec)
\* ------------------------------------------------------------------------
PriceColumns == {"precio_venta", "precio_competencia", "ratio_precio"}

SamePrices(a, b) ==
    /\ Len(a) = Len(b)
    /\ \A i \in 1..Len(a) : \A c \in PriceColumns : a[i][c] = b[i][c]

\* C7: every comparison entry forecasts the series obtained by applying the
\* discount and that entry's adjustment once to the selected product's
\* untransformed rows, and the entry of the selected scenario has the prices
\* of the main simulation.
C7_ScenarioComparison ==
    outcome = "rendered" =>
        \A n \in 1..Len(comparison) :
            LET e == comparison[n]
                once == apply_competition_scenario(
                            apply_discount_to_dataframe(
                                FilterProduct(df_inference, widgets.selected_product),
                                widgets.discount_slider),
                            e.adjustment)
            IN  /\ e.df_temp = once
                /\ e.metrics_temp = calculate_metrics(simulate_recursive_predictions(once, model))
                /\ e.adjustment = ScenarioAdjustment[widgets.scenario_option] =>
                      SamePrices(e.df_temp, session_state.df_sim)

\* C10: on every rerun that has stored results, the product rows read by the
\* comparison are bound and the comparison completes.
C10_ComparisonDefined ==
    "df_sim" \in DOMAIN session_state =>
        /\ "df_product" \in namespace
        /\ outcome = "rendered"
        /\ Len(comparison) = Len(scenarios)

====
